---- MODULE Spec2Model ----
(***************************************************************************)
(* A model of mini_nrbf (src/src/mini_nrbf/__init__.py): the primitive     *)
(* codec (PrimitiveStream / PrimitiveWriter), the record type registry     *)
(* (RecordTypeEnum), the object reference tables (RecordStream /           *)
(* RecordWriter) and the drivers serialize_records and DNBinary.parse.     *)
(*                                                                         *)
(* Bytes are integers in 0..255, a byte buffer is a sequence of bytes, a   *)
(* Python str is a sequence of Unicode code points, a record is a TLA+     *)
(* record whose field "type" names its dataclass.  Every reader operator   *)
(* returns [err, pos, value]: err is "ok" or the name of the exception     *)
(* raised, pos the position of the byte source afterwards.  Every writer   *)
(* operator returns [err, bytes]: bytes is what reached the sink, also     *)
(* when an exception cut the write short.                                  *)
(***************************************************************************)
EXTENDS Integers, Sequences, FiniteSets, TLC

VARIABLES
    records,     \* serialize_records: the record sequence to encode
    widx,        \* serialize_records: number of records completely written
    buffer,      \* the writer's byte sink (io.BytesIO), as written so far
    w_objects,   \* RecordWriter._objects
    wstate,      \* "Writing", "Done" (bytes returned) or the exception raised
    wlength,     \* PrimitiveWriter.string: len(encoded)
    data,        \* the reader's byte source (io.BytesIO contents)
    pos,         \* the reader's byte source position
    length,      \* PrimitiveStream.string: the local `length` when the prefix ends
    value,       \* PrimitiveStream.string: <<s>> once a string s was returned
    dn_records,  \* DNBinary._records
    r_objects,   \* RecordStream._objects
    state,       \* "NotStarted", "Reading", "Done" or the exception raised
    result       \* <<list>> once DNBinary.parse returned list, else <<>>

vars == <<records, widx, buffer, w_objects, wstate, wlength, data, pos,
          length, value, dn_records, r_objects, state, result>>

writerVars == <<records, widx, buffer, w_objects, wstate, wlength>>
readerVars == <<data, pos, length, value, dn_records, r_objects, state, result>>

(***************************************************************************)
(* Bounds of the model.                                                    *)
(***************************************************************************)
MaxRecords == 3     \* longest record sequence handed to serialize_records
MaxRawLen == 5      \* longest raw byte input handed to PrimitiveStream.string
MaxSmallLen == 40   \* lengths 0..MaxSmallLen, and that far around each 7-bit boundary
LongLen == 32       \* 4-byte code points of the long sample string (2-byte length prefix)

(***************************************************************************)
(* Program constants.                                                      *)
(***************************************************************************)
TagSerializedStreamHeader == 0
TagBinaryObjectString == 6
TagMessageEnd == 11
MaxPrefixBytes == 5
Int32Max == 2147483647
Int32Min == -Int32Max - 1

RecordTags == {TagSerializedStreamHeader, TagBinaryObjectString, TagMessageEnd}

(***************************************************************************)
(* Records (the three dataclasses).                                        *)
(***************************************************************************)
SerializedStreamHeader(root, header, major, minor) ==
    [type |-> "SerializedStreamHeader", root_id |-> root, header_id |-> header,
     major_version |-> major, minor_version |-> minor]

BinaryObjectString(id, s) ==
    [type |-> "BinaryObjectString", object_id |-> id, value |-> s]

MessageEnd == [type |-> "MessageEnd"]

(***************************************************************************)
(* str.encode("u8") and bytes.decode("u8"): strict UTF-8 (RFC 3629), as    *)
(* CPython implements it: no surrogates, no overlong forms, at most        *)
(* U+10FFFF.                                                               *)
(***************************************************************************)
Utf8EncodeChar(cp) ==
    IF cp < 128 THEN <<cp>>
    ELSE IF cp < 2048 THEN <<192 + (cp \div 64), 128 + (cp % 64)>>
    ELSE IF cp < 65536 THEN
        <<224 + (cp \div 4096), 128 + ((cp \div 64) % 64), 128 + (cp % 64)>>
    ELSE <<240 + (cp \div 262144), 128 + ((cp \div 4096) % 64),
           128 + ((cp \div 64) % 64), 128 + (cp % 64)>>

IsSurrogate(cp) == cp \in 55296..57343

RECURSIVE Utf8EncodeFrom(_, _)
Utf8EncodeFrom(s, i) ==
    IF i > Len(s) THEN <<>>
    ELSE Utf8EncodeChar(s[i]) \o Utf8EncodeFrom(s, i + 1)

\* value.encode("u8"): [ok, bytes]; a lone surrogate raises UnicodeEncodeError
Utf8Encode(s) ==
    IF \E i \in 1..Len(s) : IsSurrogate(s[i])
    THEN [ok |-> FALSE, bytes |-> <<>>]
    ELSE [ok |-> TRUE, bytes |-> Utf8EncodeFrom(s, 1)]

\* number of bytes of the UTF-8 sequence a lead byte starts, 0 if it starts none
Utf8SeqLen(b0) ==
    IF b0 < 128 THEN 1
    ELSE IF b0 \in 194..223 THEN 2
    ELSE IF b0 \in 224..239 THEN 3
    ELSE IF b0 \in 240..244 THEN 4
    ELSE 0

\* the range the second byte of a sequence must lie in (excludes overlong
\* forms, surrogates and code points above U+10FFFF)
Utf8SecondLo(b0) == IF b0 = 224 THEN 160 ELSE IF b0 = 240 THEN 144 ELSE 128
Utf8SecondHi(b0) == IF b0 = 237 THEN 159 ELSE IF b0 = 244 THEN 143 ELSE 191

Utf8WellFormedAt(raw, i, n) ==
    /\ n > 0
    /\ i + n - 1 <= Len(raw)
    /\ n >= 2 => raw[i + 1] \in Utf8SecondLo(raw[i])..Utf8SecondHi(raw[i])
    /\ \A k \in 2..(n - 1) : raw[i + k] \in 128..191

Utf8CodePointAt(raw, i, n) ==
    IF n = 1 THEN raw[i]
    ELSE IF n = 2 THEN (raw[i] - 192) * 64 + (raw[i + 1] - 128)
    ELSE IF n = 3 THEN
        (raw[i] - 224) * 4096 + (raw[i + 1] - 128) * 64 + (raw[i + 2] - 128)
    ELSE (raw[i] - 240) * 262144 + (raw[i + 1] - 128) * 4096
         + (raw[i + 2] - 128) * 64 + (raw[i + 3] - 128)

RECURSIVE Utf8DecodeFrom(_, _, _)
Utf8DecodeFrom(raw, i, acc) ==
    IF i > Len(raw) THEN [ok |-> TRUE, value |-> acc]
    ELSE LET n == Utf8SeqLen(raw[i])
         IN  IF ~Utf8WellFormedAt(raw, i, n)
             THEN [ok |-> FALSE, value |-> <<>>]
             ELSE Utf8DecodeFrom(raw, i + n,
                                 Append(acc, Utf8CodePointAt(raw, i, n)))

\* raw.decode("u8"): [ok, value]; malformed input raises UnicodeDecodeError
Utf8Decode(raw) == Utf8DecodeFrom(raw, 1, <<>>)

(***************************************************************************)
(* PrimitiveStream.                                                        *)
(***************************************************************************)
\* read(size): io.BytesIO.read hands out what is left when less than size
\* remains (the position moves to the end), and read then raises EOFError
StreamRead(d, p, size) ==
    IF size <= Len(d) - p
    THEN [err |-> "ok", pos |-> p + size, value |-> SubSeq(d, p + 1, p + size)]
    ELSE [err |-> "EOFError", pos |-> Len(d), value |-> <<>>]

\* byte(): struct.unpack("<B", read(1))
StreamByte(d, p) ==
    LET r == StreamRead(d, p, 1)
    IN  IF r.err # "ok" THEN [err |-> r.err, pos |-> r.pos, value |-> 0]
        ELSE [err |-> "ok", pos |-> r.pos, value |-> r.value[1]]

\* mutant of UnpackInt32: big-endian (">i")
UnpackInt32BigEndian(raw) ==
    raw[4] + 256 * raw[3] + 65536 * raw[2]
    + 16777216 * (IF raw[1] >= 128 THEN raw[1] - 256 ELSE raw[1])

\* struct.unpack("<i", raw): little-endian, two's complement
UnpackInt32(raw) ==
    raw[1] + 256 * raw[2] + 65536 * raw[3]
    + 16777216 * (IF raw[4] >= 128 THEN raw[4] - 256 ELSE raw[4])

\* int32()
StreamInt32(d, p) ==
    LET r == StreamRead(d, p, 4)
    IN  IF r.err # "ok" THEN [err |-> r.err, pos |-> r.pos, value |-> 0]
        ELSE [err |-> "ok", pos |-> r.pos, value |-> UnpackInt32(r.value)]

\* mutant of StreamLength: a 5th byte with the continuation bit ends the
\* loop without raising, the length so far is used
RECURSIVE StreamLengthTruncating(_, _, _, _)
StreamLengthTruncating(d, p, i, len) ==
    LET r == StreamByte(d, p)
    IN  IF r.err # "ok" THEN [err |-> r.err, pos |-> r.pos, value |-> len]
        ELSE IF r.value < 128
        THEN [err |-> "ok", pos |-> r.pos,
              value |-> len + (r.value % 128) * (2 ^ (7 * i))]
        ELSE IF i = MaxPrefixBytes - 1
        THEN [err |-> "ok", pos |-> r.pos, value |-> len]
        ELSE StreamLengthTruncating(d, r.pos, i + 1,
                                    len + (r.value % 128) * (2 ^ (7 * i)))

\* string(), the length prefix loop `for i in range(5)`: i is the loop index,
\* len the local `length` accumulated so far.  When the loop raises, `length`
\* only feeds the message and is not carried on.
RECURSIVE StreamLength(_, _, _, _)
StreamLength(d, p, i, len) ==
    LET r == StreamByte(d, p)
    IN  IF r.err # "ok" THEN [err |-> r.err, pos |-> r.pos, value |-> len]
        ELSE IF r.value < 128
        THEN [err |-> "ok", pos |-> r.pos,
              value |-> len + (r.value % 128) * (2 ^ (7 * i))]
        ELSE IF i = MaxPrefixBytes - 1
        THEN [err |-> "RuntimeError", pos |-> r.pos, value |-> len]
        ELSE StreamLength(d, r.pos, i + 1,
                          len + (r.value % 128) * (2 ^ (7 * i)))

\* mutant of StreamString: the payload comes from self.stream.read(length),
\* without the short-read check of self.read
StreamStringUnchecked(d, p) ==
    LET l == StreamLength(d, p, 0, 0)
    IN  IF l.err # "ok"
        THEN [err |-> l.err, pos |-> l.pos, value |-> <<>>, length |-> l.value]
        ELSE LET end == IF l.value <= Len(d) - l.pos THEN l.pos + l.value
                        ELSE Len(d)
                 s == Utf8Decode(SubSeq(d, l.pos + 1, end))
             IN  [err |-> IF s.ok THEN "ok" ELSE "UnicodeDecodeError",
                  pos |-> end, value |-> s.value, length |-> l.value]

\* string(): [err, pos, value, length]
StreamString(d, p) ==
    LET l == StreamLength(d, p, 0, 0)
    IN  IF l.err # "ok"
        THEN [err |-> l.err, pos |-> l.pos, value |-> <<>>, length |-> l.value]
        ELSE LET raw == StreamRead(d, l.pos, l.value)
             IN  IF raw.err # "ok"
                 THEN [err |-> raw.err, pos |-> raw.pos, value |-> <<>>,
                       length |-> l.value]
                 ELSE LET s == Utf8Decode(raw.value)
                      IN  [err |-> IF s.ok THEN "ok" ELSE "UnicodeDecodeError",
                           pos |-> raw.pos, value |-> s.value,
                           length |-> l.value]

(***************************************************************************)
(* PrimitiveWriter.                                                        *)
(***************************************************************************)
\* two writes in sequence: the second happens only if the first did not raise
Then(a, b) ==
    IF a.err # "ok" THEN a
    ELSE [err |-> b.err, bytes |-> a.bytes \o b.bytes]

\* byte(value)
WriterByte(v) ==
    IF ~(0 <= v /\ v <= 255) THEN [err |-> "ValueError", bytes |-> <<>>]
    ELSE [err |-> "ok", bytes |-> <<v>>]

\* mutant of PackInt32: big-endian (">i")
PackInt32BigEndian(v) ==
    <<(v \div 16777216) % 256, (v \div 65536) % 256, (v \div 256) % 256,
      v % 256>>

\* struct.pack("<i", value): little-endian, two's complement
PackInt32(v) ==
    <<v % 256, (v \div 256) % 256, (v \div 65536) % 256,
      (v \div 16777216) % 256>>

\* int32(value)
WriterInt32(v) ==
    IF ~(Int32Min <= v /\ v <= Int32Max)
    THEN [err |-> "struct.error", bytes |-> <<>>]
    ELSE [err |-> "ok", bytes |-> PackInt32(v)]

\* mutant of WriterLength: `while length > 0x80`
RECURSIVE WriterLengthOffByOne(_)
WriterLengthOffByOne(len) ==
    IF len > 128
    THEN Then(WriterByte((len % 128) + 128), WriterLengthOffByOne(len \div 128))
    ELSE WriterByte(len % 128)

\* string(value), the length prefix loop `while length >= 0x80` and the
\* final byte(length & 0x7F)
RECURSIVE WriterLength(_)
WriterLength(len) ==
    IF len >= 128
    THEN Then(WriterByte((len % 128) + 128), WriterLength(len \div 128))
    ELSE WriterByte(len % 128)

\* mutant of WriterString: the prefix carries len(value), the number of code
\* points, instead of len(encoded)
WriterStringCodePoints(s) ==
    LET encoded == Utf8Encode(s)
    IN  IF ~encoded.ok THEN [err |-> "UnicodeEncodeError", bytes |-> <<>>]
        ELSE Then(WriterLength(Len(s)), [err |-> "ok", bytes |-> encoded.bytes])

\* string(value)
WriterString(s) ==
    LET encoded == Utf8Encode(s)
    IN  IF ~encoded.ok THEN [err |-> "UnicodeEncodeError", bytes |-> <<>>]
        ELSE Then(WriterLength(Len(encoded.bytes)),
                  [err |-> "ok", bytes |-> encoded.bytes])

(***************************************************************************)
(* RecordTypeEnum.                                                         *)
(***************************************************************************)
\* mutant of RecordTypeEnum: a value that is no member is taken for MessageEnd
RecordTypeEnumLenient(v) ==
    IF v \in RecordTags THEN [err |-> "ok", value |-> v]
    ELSE [err |-> "ok", value |-> TagMessageEnd]

\* RecordTypeEnum(value): the enum lookup raises ValueError for a value that
\* is no member
RecordTypeEnum(v) ==
    IF v \in RecordTags THEN [err |-> "ok", value |-> v]
    ELSE [err |-> "ValueError", value |-> v]

\* from_record(record)
FromRecord(record) ==
    IF record.type = "SerializedStreamHeader" THEN TagSerializedStreamHeader
    ELSE IF record.type = "BinaryObjectString" THEN TagBinaryObjectString
    ELSE TagMessageEnd

\* mutant of StreamSetObject: self._objects.setdefault(ref, obj)
StreamSetObjectKeepFirst(objects, ref, obj) ==
    [k \in (DOMAIN objects) \cup {ref} |->
        IF k \in DOMAIN objects THEN objects[k] ELSE obj]

\* RecordStream.set_object(ref, obj): self._objects[ref] = obj
StreamSetObject(objects, ref, obj) ==
    [k \in (DOMAIN objects) \cup {ref} |-> IF k = ref THEN obj ELSE objects[k]]

\* mutant of WriterSetObject: the registration is left out
WriterSetObjectDropped(objects, ref, obj) == objects

\* RecordWriter.set_object(ref, obj): self._objects[ref] = obj
WriterSetObject(objects, ref, obj) ==
    [k \in (DOMAIN objects) \cup {ref} |-> IF k = ref THEN obj ELSE objects[k]]

\* parse(stream), case SerializedStreamHeader
ParseSerializedStreamHeader(d, p, objects) ==
    LET a == StreamInt32(d, p)
        b == StreamInt32(d, a.pos)
        c == StreamInt32(d, b.pos)
        e == StreamInt32(d, c.pos)
        failed(r) == [err |-> r.err, pos |-> r.pos, value |-> MessageEnd,
                      objects |-> objects]
    IN  IF a.err # "ok" THEN failed(a)
        ELSE IF b.err # "ok" THEN failed(b)
        ELSE IF c.err # "ok" THEN failed(c)
        ELSE IF e.err # "ok" THEN failed(e)
        ELSE [err |-> "ok", pos |-> e.pos,
              value |-> SerializedStreamHeader(a.value, b.value, c.value, e.value),
              objects |-> objects]

\* parse(stream), case BinaryObjectString
ParseBinaryObjectString(d, p, objects) ==
    LET id == StreamInt32(d, p)
        s == StreamString(d, id.pos)
        failed(r) == [err |-> r.err, pos |-> r.pos, value |-> MessageEnd,
                      objects |-> objects]
    IN  IF id.err # "ok" THEN failed(id)
        ELSE IF s.err # "ok" THEN failed(s)
        ELSE LET record == BinaryObjectString(id.value, s.value)
             IN  [err |-> "ok", pos |-> s.pos, value |-> record,
                  objects |-> StreamSetObject(objects, id.value, record)]

\* parse(stream): [err, pos, value, objects]
RecordTypeParse(tag, d, p, objects) ==
    IF tag = TagSerializedStreamHeader THEN ParseSerializedStreamHeader(d, p, objects)
    ELSE IF tag = TagBinaryObjectString THEN ParseBinaryObjectString(d, p, objects)
    ELSE [err |-> "ok", pos |-> p, value |-> MessageEnd, objects |-> objects]

\* serialize(record, writer), case SerializedStreamHeader
SerializeSerializedStreamHeader(record) ==
    IF record.type # "SerializedStreamHeader"
    THEN [err |-> "TypeError", bytes |-> <<>>]
    ELSE Then(WriterInt32(record.root_id),
         Then(WriterInt32(record.header_id),
         Then(WriterInt32(record.major_version),
              WriterInt32(record.minor_version))))

\* serialize(record, writer), case BinaryObjectString
SerializeBinaryObjectString(record) ==
    IF record.type # "BinaryObjectString"
    THEN [err |-> "TypeError", bytes |-> <<>>]
    ELSE Then(WriterInt32(record.object_id), WriterString(record.value))

\* serialize(record, writer): [err, bytes, objects]
RecordTypeSerialize(tag, record, objects) ==
    LET fields ==
            IF tag = TagSerializedStreamHeader
            THEN SerializeSerializedStreamHeader(record)
            ELSE IF tag = TagBinaryObjectString
            THEN SerializeBinaryObjectString(record)
            ELSE IF record.type # "MessageEnd"
            THEN [err |-> "TypeError", bytes |-> <<>>]
            ELSE [err |-> "ok", bytes |-> <<>>]
        w == Then(WriterByte(tag), fields)
    IN  [err |-> w.err, bytes |-> w.bytes,
         objects |-> IF w.err = "ok" /\ tag = TagBinaryObjectString
                     THEN WriterSetObject(objects, record.object_id, record)
                     ELSE objects]

(***************************************************************************)
(* RecordStream, RecordWriter, DNBinary.                                   *)
(***************************************************************************)
\* RecordStream.record(): [err, pos, value, objects]
StreamRecord(d, p, objects) ==
    LET b == StreamByte(d, p)
    IN  IF b.err # "ok"
        THEN [err |-> b.err, pos |-> b.pos, value |-> MessageEnd,
              objects |-> objects]
        ELSE LET record_type == RecordTypeEnum(b.value)
             IN  IF record_type.err # "ok"
                 THEN [err |-> record_type.err, pos |-> b.pos,
                       value |-> MessageEnd, objects |-> objects]
                 ELSE RecordTypeParse(record_type.value, d, b.pos, objects)

\* RecordWriter.record(record): [err, bytes, objects]
WriterRecord(record, objects) ==
    RecordTypeSerialize(FromRecord(record), record, objects)

\* mutant of IsMessageEnd: the loop never breaks
IsMessageEndNever(record) == FALSE

\* DNBinary.parse: isinstance(record, MessageEnd)
IsMessageEnd(record) == record.type = "MessageEnd"

(***************************************************************************)
(* Inputs.                                                                 *)
(***************************************************************************)
StrEmpty == <<>>
StrHi == <<104, 105>>                 \* "hi"
StrMulti == <<233, 8364, 128512>>     \* 2-, 3- and 4-byte code points
StrSurrogate == <<55296>>             \* a lone surrogate: no valid text
StrLong == [i \in 1..LongLen |-> 128512]  \* LongLen times U+1F600

RecordUniverse ==
    { SerializedStreamHeader(1, -1, 1, 0),
      SerializedStreamHeader(Int32Min, Int32Max, 258, -2),
      BinaryObjectString(1, StrHi),
      BinaryObjectString(1, StrMulti),
      BinaryObjectString(5, StrEmpty),
      BinaryObjectString(5, StrSurrogate),
      MessageEnd }

RecordSequences == UNION {[1..n -> RecordUniverse] : n \in 0..MaxRecords}

\* a byte that is no record tag, spliced into the stream by ParseBytes
UnknownTags == {7, 255}

\* raw inputs of PrimitiveStream.string: prefix bytes with and without the
\* continuation bit, ASCII payload, a 2-byte UTF-8 sequence (195 169)
RawBytes == {0, 1, 2, 7, 128, 195, 169}
RawInputs == UNION {[1..n -> RawBytes] : n \in 0..MaxRawLen}
StringInputs == RawInputs \cup {WriterString(StrLong).bytes}

\* string lengths: the small ones, those around every 7-bit group boundary,
\* and the largest a 32-bit evaluation can hold
Lengths ==
    (0..MaxSmallLen)
    \cup {(2 ^ (7 * k)) + d : k \in 1..4, d \in (-MaxSmallLen)..MaxSmallLen}
    \cup {Int32Max}

(***************************************************************************)
(* serialize_records and parse_bytes.                                      *)
(***************************************************************************)
Init ==
    /\ records \in RecordSequences
    /\ widx = 0
    /\ buffer = <<>>
    /\ w_objects = <<>>
    /\ wstate = "Writing"
    /\ wlength = 0
    /\ data = <<>>
    /\ pos = 0
    /\ length = 0
    /\ value = <<>>
    /\ dn_records = <<>>
    /\ r_objects = <<>>
    /\ state = "NotStarted"
    /\ result = <<>>

\* serialize_records, one pass of `for record in records: writer.record(record)`
SerializeRecord ==
    /\ wstate = "Writing"
    /\ widx < Len(records)
    /\ LET w == WriterRecord(records[widx + 1], w_objects)
       IN  /\ buffer' = buffer \o w.bytes
           /\ w_objects' = w.objects
           /\ widx' = IF w.err = "ok" THEN widx + 1 ELSE widx
           /\ wstate' = IF w.err = "ok" THEN "Writing" ELSE w.err
    /\ UNCHANGED <<records, wlength>>
    /\ UNCHANGED readerVars

\* serialize_records, `return buffer.getvalue()`
SerializeReturn ==
    /\ wstate = "Writing"
    /\ widx = Len(records)
    /\ wstate' = "Done"
    /\ UNCHANGED <<records, widx, buffer, w_objects, wlength>>
    /\ UNCHANGED readerVars

\* parse_bytes(data) up to the construction of DNBinary.  The data are the
\* serialized bytes, a prefix of them, or a prefix followed by an unknown tag.
ParseBytes ==
    /\ wstate = "Done"
    /\ state = "NotStarted"
    /\ \E n \in 0..Len(buffer), tail \in {<<>>} \cup {<<t>> : t \in UnknownTags} :
           data' = SubSeq(buffer, 1, n) \o tail
    /\ pos' = 0
    /\ dn_records' = <<>>
    /\ r_objects' = <<>>
    /\ state' = "Reading"
    /\ result' = <<>>
    /\ UNCHANGED <<length, value>>
    /\ UNCHANGED writerVars

\* DNBinary.parse, one pass of the `while True` loop, with the return that
\* follows its break
ParseRecord ==
    /\ state = "Reading"
    /\ LET r == StreamRecord(data, pos, r_objects)
       IN  /\ pos' = r.pos
           /\ r_objects' = r.objects
           /\ IF r.err # "ok"
              THEN /\ state' = r.err
                   /\ UNCHANGED <<dn_records, result>>
              ELSE /\ dn_records' = Append(dn_records, r.value)
                   /\ IF IsMessageEnd(r.value)
                      THEN /\ state' = "Done"
                           /\ result' = <<dn_records'>>
                      ELSE /\ state' = "Reading"
                           /\ result' = result
    /\ UNCHANGED <<data, length, value>>
    /\ UNCHANGED writerVars

Next == SerializeRecord \/ SerializeReturn \/ ParseBytes \/ ParseRecord

Spec == Init /\ [][Next]_vars

(***************************************************************************)
(* PrimitiveStream.string on raw bytes, then PrimitiveWriter.string on the *)
(* string it returned.                                                     *)
(***************************************************************************)
InitString ==
    /\ data \in StringInputs
    /\ pos = 0
    /\ length = 0
    /\ value = <<>>
    /\ state = "Reading"
    /\ buffer = <<>>
    /\ wstate = "Writing"
    /\ wlength = 0
    /\ records = <<>>
    /\ widx = 0
    /\ w_objects = <<>>
    /\ dn_records = <<>>
    /\ r_objects = <<>>
    /\ result = <<>>

\* PrimitiveStream.string()
ReadString ==
    /\ state = "Reading"
    /\ value = <<>>
    /\ LET r == StreamString(data, pos)
       IN  /\ pos' = r.pos
           /\ state' = IF r.err = "ok" THEN "Reading" ELSE r.err
           /\ value' = IF r.err = "ok" THEN <<r.value>> ELSE <<>>
           /\ length' = IF r.err = "RuntimeError" THEN length ELSE r.length
    /\ UNCHANGED <<data, dn_records, r_objects, result>>
    /\ UNCHANGED writerVars

\* PrimitiveWriter.string(value)
WriteString ==
    /\ wstate = "Writing"
    /\ value # <<>>
    /\ LET w == WriterString(value[1])
       IN  /\ buffer' = buffer \o w.bytes
           /\ wstate' = IF w.err = "ok" THEN "Done" ELSE w.err
           /\ wlength' = IF w.err = "ok" THEN Len(Utf8Encode(value[1]).bytes)
                         ELSE wlength
    /\ UNCHANGED <<records, widx, w_objects>>
    /\ UNCHANGED readerVars

NextString == ReadString \/ WriteString

SpecString == InitString /\ [][NextString]_vars

(***************************************************************************)
(* The length prefix alone, for string lengths too large to build the      *)
(* string: the string is wlength ASCII bytes, its payload is left out of   *)
(* the sink, and the reader stops after the prefix.                        *)
(***************************************************************************)
InitVarInt ==
    /\ wlength \in Lengths
    /\ buffer = <<>>
    /\ wstate = "Writing"
    /\ data = <<>>
    /\ pos = 0
    /\ length = 0
    /\ value = <<>>
    /\ state = "NotStarted"
    /\ records = <<>>
    /\ widx = 0
    /\ w_objects = <<>>
    /\ dn_records = <<>>
    /\ r_objects = <<>>
    /\ result = <<>>

\* PrimitiveWriter.string, from `length = len(encoded)` to byte(length & 0x7F)
WriteLengthPrefix ==
    /\ wstate = "Writing"
    /\ LET w == WriterLength(wlength)
       IN  /\ buffer' = buffer \o w.bytes
           /\ wstate' = IF w.err = "ok" THEN "Done" ELSE w.err
    /\ UNCHANGED <<records, widx, w_objects, wlength>>
    /\ UNCHANGED readerVars

\* PrimitiveStream.string on the bytes written, up to `raw = self.read(length)`
ReadLengthPrefix ==
    /\ wstate = "Done"
    /\ state = "NotStarted"
    /\ LET r == StreamLength(buffer, 0, 0, 0)
       IN  /\ data' = buffer
           /\ pos' = r.pos
           /\ state' = IF r.err = "ok" THEN "Reading" ELSE r.err
           /\ length' = IF r.err = "ok" THEN r.value ELSE length
    /\ UNCHANGED <<value, dn_records, r_objects, result>>
    /\ UNCHANGED writerVars

NextVarInt == WriteLengthPrefix \/ ReadLengthPrefix

SpecVarInt == InitVarInt /\ [][NextVarInt]_vars

(***************************************************************************)
(* Vocabulary of the properties.                                           *)
(***************************************************************************)
Terminated == state \notin {"NotStarted", "Reading"}

\* R holds exactly one MessageEnd, as its last element, and only valid text
ExactlyOneMessageEndLast(R) ==
    /\ Len(R) >= 1
    /\ R[Len(R)].type = "MessageEnd"
    /\ \A i \in 1..(Len(R) - 1) : R[i].type # "MessageEnd"
    /\ \A i \in 1..Len(R) :
           R[i].type = "BinaryObjectString" =>
               \A j \in 1..Len(R[i].value) : R[i].value[j] \notin 55296..57343

IsProperPrefix(a, b) == Len(a) < Len(b) /\ a = SubSeq(b, 1, Len(a))

\* b is the 4-byte little-endian two's complement form of v
IsInt32LE(b, v) ==
    /\ Len(b) = 4
    /\ \A i \in 1..4 : b[i] \in 0..255
    /\ (v < 0) <=> (b[4] >= 128)
    /\ b[1] + 256 * b[2] + 65536 * b[3]
       + 16777216 * (b[4] - (IF v < 0 THEN 256 ELSE 0)) = v

\* the sum of (b[i] & 0x7F) << (7 * (i - 1)) over the first k bytes of b
RECURSIVE GroupSum(_, _)
GroupSum(b, k) ==
    IF k = 0 THEN 0
    ELSE GroupSum(b, k - 1) + (b[k] % 128) * (2 ^ (7 * (k - 1)))

\* b is a length prefix of value n: every byte but the last has its high bit
\* set, the last has it clear, and the 7-bit groups add up to n
IsVarInt(b, n) ==
    /\ Len(b) >= 1
    /\ \A i \in 1..(Len(b) - 1) : b[i] \in 128..255
    /\ b[Len(b)] \in 0..127
    /\ GroupSum(b, Len(b)) = n

\* b is the wire form of record rec
IsWireForm(rec, b) ==
    IF rec.type = "SerializedStreamHeader" THEN
        /\ Len(b) = 17
        /\ b[1] = 0
        /\ IsInt32LE(SubSeq(b, 2, 5), rec.root_id)
        /\ IsInt32LE(SubSeq(b, 6, 9), rec.header_id)
        /\ IsInt32LE(SubSeq(b, 10, 13), rec.major_version)
        /\ IsInt32LE(SubSeq(b, 14, 17), rec.minor_version)
    ELSE IF rec.type = "BinaryObjectString" THEN
        /\ Len(b) >= 6
        /\ b[1] = 6
        /\ IsInt32LE(SubSeq(b, 2, 5), rec.object_id)
        /\ \E k \in 1..5 :
               /\ 5 + k <= Len(b)
               /\ IsVarInt(SubSeq(b, 6, 5 + k), Len(b) - 5 - k)
               /\ Utf8Decode(SubSeq(b, 6 + k, Len(b)))
                      = [ok |-> TRUE, value |-> rec.value]
    ELSE b = <<11>>

\* the table a record sequence defines: one key per object_id of its
\* BinaryObjectString records, mapped to the last such record with that id
StringIndices(R) == {i \in 1..Len(R) : R[i].type = "BinaryObjectString"}

LastIndexOf(R, id) ==
    CHOOSE i \in StringIndices(R) :
        /\ R[i].object_id = id
        /\ \A j \in StringIndices(R) : R[j].object_id = id => j <= i

TableOf(R) ==
    [id \in {R[i].object_id : i \in StringIndices(R)} |-> R[LastIndexOf(R, id)]]

WireLayoutStep ==
    /\ widx' = widx + 1 =>
           /\ Len(buffer') >= Len(buffer)
           /\ SubSeq(buffer', 1, Len(buffer)) = buffer
           /\ IsWireForm(records[widx + 1],
                         SubSeq(buffer', Len(buffer) + 1, Len(buffer')))
    /\ (wstate = "Writing" /\ wstate' = "Done") =>
           (buffer' = buffer /\ widx = Len(records))

WireLayoutScenarios ==
    wstate = "Done" =>
        /\ records = <<SerializedStreamHeader(1, -1, 1, 0), MessageEnd>> =>
               buffer = <<0, 1, 0, 0, 0, 255, 255, 255, 255,
                          1, 0, 0, 0, 0, 0, 0, 0, 11>>
        /\ records = <<BinaryObjectString(1, StrHi), MessageEnd>> =>
               buffer = <<6, 1, 0, 0, 0, 2, 104, 105, 11>>

WireLayout == [][WireLayoutStep]_vars /\ []WireLayoutScenarios

WireLayoutWitness ==
    /\ wstate = "Done"
    /\ records = <<SerializedStreamHeader(Int32Min, Int32Max, 258, -2),
                   BinaryObjectString(1, StrMulti), MessageEnd>>
    /\ Len(buffer) = 17 + 15 + 1

(***************************************************************************)
(* C3.  Truncated input: decoding a proper prefix (the empty one included) *)
(* of the bytes of a valid stream ends with EOFError: it returns nothing   *)
(* and raises nothing else.  While it runs it stays inside the data.       *)
(***************************************************************************)
TruncatedInputFails ==
    (/\ wstate = "Done"
     /\ ExactlyOneMessageEndLast(records)
     /\ state # "NotStarted"
     /\ IsProperPrefix(data, buffer)) =>
        /\ Terminated => (state = "EOFError" /\ result = <<>>)
        /\ Len(dn_records) <= pos /\ pos <= Len(data)

TruncatedInputWitness ==
    /\ wstate = "Done"
    /\ records = <<BinaryObjectString(5, StrEmpty),
                   BinaryObjectString(1, StrMulti), MessageEnd>>
    /\ IsProperPrefix(data, buffer)
    /\ Len(data) = Len(buffer) - 3
    /\ state = "EOFError"
    /\ Len(dn_records) = 1

(***************************************************************************)
(* C4.  Unknown tag is fatal: when the decoder, Reading, is at a byte that *)
(* is not 0, 6 or 11, its next step raises ValueError having consumed that *)
(* byte and nothing more; nothing is appended or returned, and after the   *)
(* failure nothing of the decoder changes again.                           *)
(***************************************************************************)
UnknownTagStep ==
    /\ (state = "Reading" /\ pos < Len(data) /\ data[pos + 1] \notin {0, 6, 11}) =>
           /\ state' = "ValueError"
           /\ pos' = pos + 1
           /\ result' = <<>>
           /\ UNCHANGED <<dn_records, r_objects, data>>
    /\ state = "ValueError" => UNCHANGED readerVars

UnknownTagFailed ==
    state = "ValueError" =>
        /\ result = <<>>
        /\ pos >= 1
        /\ data[pos] \notin {0, 6, 11}

UnknownTagFatal == [][UnknownTagStep]_vars /\ []UnknownTagFailed

UnknownTagWitness ==
    /\ state = "ValueError"
    /\ Len(dn_records) = 2
    /\ pos = Len(data)
    /\ data[pos] = 7

(***************************************************************************)
(* C5.  Object-table symmetry, as claimed: for every record sequence the   *)
(* encoder encodes without error, the encoder's table after encoding       *)
(* equals the decoder's table when the decode of the bytes has ended.      *)
(***************************************************************************)
ObjectTableSymmetryAnySequence ==
    (wstate = "Done" /\ data = buffer /\ Terminated) => w_objects = r_objects

(***************************************************************************)
(* C5, amended.  Object-table symmetry for every record sequence the       *)
(* encoder encodes without error and in which no BinaryObjectString        *)
(* follows a MessageEnd: the two tables are equal when the decode of the   *)
(* bytes has ended, and every object_id of a BinaryObjectString of the     *)
(* sequence is a key of both.                                              *)
(***************************************************************************)
NoStringAfterMessageEnd(R) ==
    \A i \in 1..Len(R), j \in 1..Len(R) :
        (R[i].type = "MessageEnd" /\ R[j].type = "BinaryObjectString") => j < i

ObjectTableSymmetry ==
    (/\ wstate = "Done" /\ data = buffer /\ Terminated
     /\ NoStringAfterMessageEnd(records)) =>
        /\ w_objects = r_objects
        /\ \A i \in StringIndices(records) :
               /\ records[i].object_id \in DOMAIN w_objects
               /\ records[i].object_id \in DOMAIN r_objects
               /\ w_objects[records[i].object_id] = r_objects[records[i].object_id]

ObjectTableSymmetryWitness ==
    /\ wstate = "Done" /\ data = buffer /\ state = "Done"
    /\ records = <<BinaryObjectString(5, StrEmpty),
                   BinaryObjectString(1, StrHi), MessageEnd>>
    /\ DOMAIN r_objects = {1, 5}
    /\ r_objects[5] = BinaryObjectString(5, StrEmpty)
    /\ w_objects[5] = BinaryObjectString(5, StrEmpty)

(***************************************************************************)
(* C6.  The length prefix is canonical: for every length L in [0, 2^28)    *)
(* the writer emits the minimum number of 7-bit groups (1, 2, 3 or 4       *)
(* bytes), every byte but the last with its high bit set and the last with *)
(* it clear, and the reader decodes that prefix to L, consuming all of it. *)
(***************************************************************************)
MinGroups(L) ==
    IF L < 2 ^ 7 THEN 1
    ELSE IF L < 2 ^ 14 THEN 2
    ELSE IF L < 2 ^ 21 THEN 3
    ELSE 4

VarIntCanonical ==
    wlength < 2 ^ 28 =>
        /\ wstate \in {"Writing", "Done"}
        /\ wstate = "Done" =>
               /\ Len(buffer) = MinGroups(wlength)
               /\ \A i \in 1..(Len(buffer) - 1) : buffer[i] \in 128..255
               /\ buffer[Len(buffer)] \in 0..127
        /\ state # "NotStarted" =>
               /\ state = "Reading"
               /\ length = wlength
               /\ data = buffer
               /\ pos = Len(buffer)

VarIntCanonicalWitness ==
    /\ wlength = 2 ^ 21
    /\ Len(buffer) = 4
    /\ state = "Reading"
    /\ length = wlength

(***************************************************************************)
(* C7.  Length-prefix budget: once string() has run, if the first 5 bytes  *)
(* all carry the continuation bit it has raised RuntimeError after exactly *)
(* 5 bytes, reading no payload and returning no string; if the k-th byte   *)
(* (k <= 5) is the first without the bit, the length is the sum of         *)
(* (byte & 0x7F) << (7 * index) over the first k bytes, untruncated: the   *)
(* payload read asks for exactly that many bytes.                          *)
(***************************************************************************)
FirstClear(d, k) ==
    /\ k <= Len(d)
    /\ d[k] < 128
    /\ \A i \in 1..(k - 1) : d[i] >= 128

StringHasRun == state # "Reading" \/ value # <<>>

LengthPrefixBudget ==
    StringHasRun =>
        /\ (Len(data) >= 5 /\ \A i \in 1..5 : data[i] >= 128) =>
               (state = "RuntimeError" /\ pos = 5 /\ value = <<>>)
        /\ \A k \in 1..5 :
               FirstClear(data, k) =>
                   /\ length = GroupSum(data, k)
                   /\ state \in {"Reading", "EOFError", "UnicodeDecodeError"}
                   /\ (state = "EOFError") <=> (length > Len(data) - k)
                   /\ state # "EOFError" => pos = k + length
        /\ state = "RuntimeError" => (pos = 5 /\ value = <<>>)

LengthPrefixBudgetWitness ==
    /\ data = <<128, 128, 128, 128, 128>>
    /\ state = "RuntimeError"
    /\ pos = 5

(***************************************************************************)
(* C8.  String re-encode law, as claimed: for every byte sequence B that   *)
(* string() reads without error consuming exactly B, writing the string    *)
(* read emits exactly B.                                                   *)
(***************************************************************************)
ReencodeAnyPrefix ==
    (wstate = "Done" /\ value # <<>> /\ pos = Len(data)) => buffer = data

(***************************************************************************)
(* C8, amended.  String re-encode law for every byte sequence B that       *)
(* string() reads without error consuming exactly B and whose length       *)
(* prefix is the shortest for its value (it is one byte, or its last byte  *)
(* is not zero): writing the string read emits exactly B.                  *)
(***************************************************************************)
ShortestPrefix(d) ==
    \E k \in 1..5 : FirstClear(d, k) /\ (k = 1 \/ d[k] # 0)

ReencodeCanonical ==
    (wstate = "Done" /\ value # <<>> /\ pos = Len(data) /\ ShortestPrefix(data)) =>
        buffer = data

ReencodeCanonicalWitness ==
    /\ wstate = "Done"
    /\ value = <<StrLong>>
    /\ pos = Len(data)
    /\ Len(data) = 2 + 4 * LongLen
    /\ buffer = data

(***************************************************************************)
(* C9.  Decoder state machine: the decoder starts in Reading; every step   *)
(* out of Reading either fails, or appends exactly one record to the       *)
(* output and moves to Done exactly when that record is a MessageEnd,      *)
(* returning the output; Done is terminal: nothing of the decoder changes  *)
(* after it, so no byte after the MessageEnd tag is consumed; the sequence *)
(* returned holds exactly one MessageEnd, as its last element.             *)
(***************************************************************************)
DecoderStep ==
    /\ state = "NotStarted" =>
           state' \in {"NotStarted", "Reading"}
    /\ (state = "NotStarted" /\ state' = "Reading") =>
           (pos' = 0 /\ dn_records' = <<>> /\ result' = <<>>)
    /\ (state = "Reading" /\ state' \in {"Reading", "Done"}) =>
           /\ Len(dn_records') = Len(dn_records) + 1
           /\ SubSeq(dn_records', 1, Len(dn_records)) = dn_records
           /\ (state' = "Done") <=> (dn_records'[Len(dn_records')].type = "MessageEnd")
           /\ state' = "Done" => result' = <<dn_records'>>
           /\ state' = "Reading" => result' = <<>>
    /\ (state = "Reading" /\ state' \notin {"Reading", "Done"}) =>
           (dn_records' = dn_records /\ result' = <<>>)
    /\ state = "Done" => UNCHANGED readerVars

DecoderDone ==
    state = "Done" =>
        /\ result = <<dn_records>>
        /\ Len(dn_records) >= 1
        /\ \A i \in 1..Len(dn_records) :
               (dn_records[i].type = "MessageEnd") <=> (i = Len(dn_records))
        /\ pos >= 1
        /\ data[pos] = 11

DecoderStateMachine == [][DecoderStep]_vars /\ []DecoderDone

DecoderStateMachineWitness ==
    /\ state = "Done"
    /\ Len(dn_records) = 2
    /\ pos < Len(data)
    /\ Len(records) = 3

(***************************************************************************)
(* C10.  The reference tables are last-write-wins: at every moment each    *)
(* table has exactly one entry per distinct object_id among the            *)
(* BinaryObjectString records processed so far, mapped to the last of them *)
(* with that id; the other records leave the table as it is.               *)
(***************************************************************************)
LastWriteWins ==
    /\ r_objects = TableOf(dn_records)
    /\ w_objects = TableOf(SubSeq(records, 1, widx))

LastWriteWinsWitness ==
    /\ state = "Done"
    /\ dn_records = <<BinaryObjectString(1, StrHi),
                      BinaryObjectString(1, StrMulti), MessageEnd>>
    /\ DOMAIN r_objects = {1}
    /\ r_objects[1] = BinaryObjectString(1, StrMulti)
    /\ w_objects[1] = BinaryObjectString(1, StrMulti)

====
